---- MODULE Spec2Model ----
(***************************************************************************)
(* State-machine model of the retail backend (Express + Mongoose):         *)
(* src/unnamed/part_000 is the hybrid-storage server, src/unnamed/part_001 *)
(* the Cloudinary-only variant with the same handlers.  Every handler is   *)
(* cut at its `await` points: node runs the code between two awaits        *)
(* without interruption, and other requests may run in between.            *)
(***************************************************************************)
EXTENDS Integers, Sequences, FiniteSets, TLC

\* ------------------------------------------------------------- bounds
NumSlots == 2      \* requests that can be in flight at the same time
MaxProducts == 1   \* product documents ever created (ObjectIds are not reused)
MaxUsers == 2      \* user documents ever created
MaxLedger == 2     \* transactions ever recorded
MaxStock == 2      \* largest stock value explored

Slots == 1..NumSlots

\* ------------------------------------------------------------- values
\* A numeric field of a request body: absent, or a number.
Missing == [def |-> FALSE, n |-> 0]
Field(n) == [def |-> TRUE, n |-> n]

\* A JavaScript number: NaN, or an integer.
NaN == [nan |-> TRUE, n |-> 0]
Num(n) == [nan |-> FALSE, n |-> n]

\* Number(x) on a body field: Number(undefined) is NaN
Number(x) == IF x.def THEN Num(x.n) ELSE NaN

Undefined == "undefined"   \* a string field absent from the request body
NoFile == "nofile"         \* a multipart request without an image part
UnknownId == 0             \* a well-formed ObjectId no document ever had

Names == {"Apple", "Pear"}
Usernames == {"ani", "budi"}
Passwords == {"pw1", "pw2"}
Prices == {Field(10)}
Numbers == {0 - 1} \cup (0..MaxStock)   \* the numbers sent in request bodies
StockInputs == {Field(n) : n \in Numbers} \cup {Missing}
QtyInputs == {Field(n) : n \in Numbers} \cup {Missing}
Files == {NoFile, "jpg", "exe"}

\* src/unnamed/part_000:87
JWT_SECRET == "rahasia_toko_buah_super_aman"

\* The Authorization header of a request: absent, a token signed with another
\* key, or a token the login route issued.
NoToken == [id |-> 0, role |-> "none", sig |-> "none"]
ForgedToken == [id |-> 1, role |-> "admin", sig |-> "forged"]

\* jwt.sign({ id: user._id, role: user.role }, JWT_SECRET)
jwt_sign(id, role) == [id |-> id, role |-> role, sig |-> JWT_SECRET]

\* The header client r sends with each of its requests.  No handler reads it.
Header(r) == IF r = 1 THEN NoToken ELSE IF r = 2 THEN ForgedToken ELSE jwt_sign(1, "staff")

\* bcryptjs rejects ("Illegal arguments") unless the password is a string
IsString(x) == x \in Passwords

\* bcrypt.hash(password, 10)
bcrypt_hash(pw) == <<"bcrypt", pw>>

\* bcrypt.compare(s, hash): true iff hash was made from s
bcrypt_compare(s, hash) == hash = bcrypt_hash(s)

VARIABLES
  isVercel,   \* deployment flag: remote (Cloudinary) or local-disk storage
  users,      \* User collection: _id -> [username, password, role]
  products,   \* Product collection: _id -> [nama, harga, stok, gambar]
  ledger,     \* Transaction collection, in insertion order
  stored,     \* file references the storage backend holds
  nextPid,    \* next fresh Product _id
  nextUid,    \* next fresh User _id
  pc,         \* per slot: the await the handler is suspended at, or "idle"
  req,        \* per slot: the request last received
  loc,        \* per slot: the handler's local variables across an await
  resp        \* per slot: the response last sent

vars == <<isVercel, users, products, ledger, stored, nextPid, nextUid, pc, req, loc, resp>>

NoReq == [op |-> "none", tok |-> NoToken]
\* req.file as multer leaves it; NoUpload stands for req.file === undefined
NoUpload == [path |-> "", filename |-> ""]
NoLoc == [file |-> NoUpload, stok |-> 0, hash |-> <<>>, uid |-> 0, role |-> "none"]
NoResp == [op |-> "none", status |-> 0, msg |-> "none", val |-> 0, tok |-> NoToken]

Init ==
  /\ isVercel \in BOOLEAN
  /\ users = <<>>
  /\ products = <<>>
  /\ ledger = <<>>
  /\ stored = {}
  /\ nextPid = 1
  /\ nextUid = 1
  /\ pc = [r \in Slots |-> "idle"]
  /\ req = [r \in Slots |-> NoReq]
  /\ loc = [r \in Slots |-> NoLoc]
  /\ resp = [r \in Slots |-> NoResp]

\* The request arrives on an idle slot; the client has read the last response.
Receive(r, request) ==
  /\ pc[r] = "idle"
  /\ req' = [req EXCEPT ![r] = request]

\* the handler suspends at an await
Suspend(r, at, locals) ==
  /\ pc' = [pc EXCEPT ![r] = at]
  /\ loc' = [loc EXCEPT ![r] = locals]
  /\ resp' = [resp EXCEPT ![r] = NoResp]

\* res.status(s).json(b): the handler ends
Respond(r, op, status, msg, val) ==
  /\ resp' = [resp EXCEPT ![r] = [op |-> op, status |-> status, msg |-> msg, val |-> val,
                                  tok |-> NoToken]]
  /\ pc' = [pc EXCEPT ![r] = "idle"]
  /\ loc' = [loc EXCEPT ![r] = NoLoc]

Remove(coll, id) == [x \in DOMAIN coll \ {id} |-> coll[x]]

\* ------------------------------------------------------------- storage
\* CloudinaryStorage params.allowed_formats
AllowedFormats == {"jpg", "png", "jpeg", "webp"}

\* What the storage engine puts in req.file for an upload with extension ext:
\* diskStorage names the file Date.now() + extname and keeps it under uploads/,
\* CloudinaryStorage returns the asset's https URL as path.
StoredFile(ext) ==
  IF isVercel
    THEN [path |-> IF ext = "jpg" THEN "https://res.cloudinary.com/toko_buah_production/1.jpg"
                                  ELSE "https://res.cloudinary.com/toko_buah_production/1.exe",
          filename |-> "toko_buah_production/1"]
    ELSE [path |-> IF ext = "jpg" THEN "uploads/1700000000000.jpg" ELSE "uploads/1700000000000.exe",
          filename |-> IF ext = "jpg" THEN "1700000000000.jpg" ELSE "1700000000000.exe"]

\* Whether the selected storage engine takes the file at all
StorageAccepts(ext) == isVercel => ext \in AllowedFormats

\* req.file ? (isVercel ? req.file.path : req.file.filename) : ''
Gambar(file) == IF file = NoUpload THEN "" ELSE IF isVercel THEN file.path ELSE file.filename

\* The reference under which the storage backend serves a file it holds
Reference(file) == IF isVercel THEN file.path ELSE file.filename

\* upload.single('image') with the storage failure passed over: the handler
\* runs with the file although the backend does not hold it
UploadSingleUnchecked(r, op, file, at) ==
  \/ /\ file = NoFile
     /\ stored' = stored
     /\ Suspend(r, at, NoLoc)
  \/ /\ file # NoFile
     /\ StorageAccepts(file)
     /\ stored' = stored \cup {StoredFile(file)}
     /\ Suspend(r, at, [NoLoc EXCEPT !.file = StoredFile(file)])
  \/ /\ file # NoFile
     /\ stored' = stored
     /\ Suspend(r, at, [NoLoc EXCEPT !.file = StoredFile(file)])

\* upload.single('image'): runs before the handler.  Without an image part the
\* handler runs with req.file undefined; with one, the storage engine either
\* stores it and the handler runs, or fails, multer calls next(err), express
\* answers 500 and the handler never runs.
UploadSingle(r, op, file, at) ==
  \/ /\ file = NoFile
     /\ stored' = stored
     /\ Suspend(r, at, NoLoc)
  \/ /\ file # NoFile
     /\ StorageAccepts(file)
     /\ stored' = stored \cup {StoredFile(file)}
     /\ Suspend(r, at, [NoLoc EXCEPT !.file = StoredFile(file)])
  \/ /\ file # NoFile
     /\ stored' = stored
     /\ Respond(r, op, 500, "Internal Server Error", 0)

\* ------------------------------------------------------------- products
\* ids a client can name: those of documents created so far, or an unknown one
KnownProductIds == (1..(nextPid - 1)) \cup {UnknownId}

PendingCreates == Cardinality({r \in Slots : pc[r] = "create_save"})

\* Mongoose validation of a new Product: nama required (a non-empty string),
\* harga and stok required Numbers (NaN does not cast)
ProductValid(nama, harga, stok) ==
  /\ nama # Undefined
  /\ nama # ""
  /\ ~harga.nan
  /\ ~stok.nan

\* POST /api/products, up to the handler's start
CreateProduct(r, names, stocks, files) ==
  \E nama \in names, harga \in Prices, stok \in stocks, file \in files :
    /\ nextPid + PendingCreates <= MaxProducts
    /\ Receive(r, [op |-> "create", tok |-> Header(r), id |-> UnknownId, nama |-> nama,
                   harga |-> harga, stok |-> stok, file |-> file])
    /\ UploadSingle(r, "create", file, "create_save")
    /\ UNCHANGED <<isVercel, users, products, ledger, nextPid, nextUid>>

\* POST /api/products, the handler: new Product({...}).save()
CreateProductSave(r) ==
  /\ pc[r] = "create_save"
  /\ LET b == req[r]
         harga == Number(b.harga)
         stok == Number(b.stok)
     IN IF ProductValid(b.nama, harga, stok)
          THEN /\ products' = products @@ (nextPid :>
                     [nama |-> b.nama, harga |-> harga.n, stok |-> stok.n,
                      gambar |-> Gambar(loc[r].file)])
               /\ nextPid' = nextPid + 1
               /\ Respond(r, "create", 201, "created", stok.n)
          ELSE /\ UNCHANGED <<products, nextPid>>
               /\ Respond(r, "create", 400, "validation failed", 0)
  /\ UNCHANGED <<isVercel, users, ledger, stored, nextUid, req>>

\* PUT /api/products/:id, up to the handler's start
UpdateProduct(r, names, stocks, files) ==
  \E id \in KnownProductIds, nama \in names, harga \in Prices,
     stok \in stocks, file \in files :
    /\ Receive(r, [op |-> "update", tok |-> Header(r), id |-> id, nama |-> nama,
                   harga |-> harga, stok |-> stok, file |-> file])
    /\ UploadSingle(r, "update", file, "update_save")
    /\ UNCHANGED <<isVercel, users, products, ledger, nextPid, nextUid>>

\* PUT /api/products/:id, the handler: Product.findByIdAndUpdate(id, updateData,
\* { new: true }); a NaN does not cast and throws; no match gives null, which
\* res.json sends with status 200.
UpdateProductSave(r) ==
  /\ pc[r] = "update_save"
  /\ LET b == req[r]
         harga == Number(b.harga)
         stok == Number(b.stok)
     IN IF harga.nan \/ stok.nan
          THEN /\ products' = products
               /\ Respond(r, "update", 400, "Cast to Number failed", 0)
          ELSE IF b.id \in DOMAIN products
            THEN /\ products' = [products EXCEPT ![b.id] =
                       [nama |-> b.nama, harga |-> harga.n, stok |-> stok.n,
                        gambar |-> IF loc[r].file = NoUpload THEN @.gambar
                                   ELSE Gambar(loc[r].file)]]
                 /\ Respond(r, "update", 200, "updated", stok.n)
            ELSE /\ products' = products
                 /\ Respond(r, "update", 200, "null", 0)
  /\ UNCHANGED <<isVercel, users, ledger, stored, nextPid, nextUid, req>>

\* DELETE /api/products/:id: Product.findByIdAndDelete(id)
DeleteProduct(r) ==
  \E id \in KnownProductIds :
    /\ Receive(r, [op |-> "delete", tok |-> Header(r), id |-> id])
    /\ products' = Remove(products, id)
    /\ Respond(r, "delete", 200, "Produk dihapus", 0)
    /\ UNCHANGED <<isVercel, users, ledger, stored, nextPid, nextUid>>

\* the test with > for >=
CanReduceStrict(id, quantity) ==
  /\ id \in DOMAIN products
  /\ quantity.def
  /\ products[id].stok > quantity.n

\* product && product.stok >= req.body.quantity  (a comparison with undefined is false)
CanReduce(id, quantity) ==
  /\ id \in DOMAIN products
  /\ quantity.def
  /\ products[id].stok >= quantity.n

\* POST /api/products/:id/reduce-stock, up to await product.save():
\* Product.findById, the test, and product.stok -= quantity on the loaded document
ReduceStock(r, quantities) ==
  \E id \in KnownProductIds, quantity \in quantities :
    /\ Receive(r, [op |-> "reduce", tok |-> Header(r), id |-> id, quantity |-> quantity])
    /\ IF CanReduce(id, quantity)
         THEN /\ products[id].stok - quantity.n <= MaxStock
              /\ Suspend(r, "reduce_save", [NoLoc EXCEPT !.stok = products[id].stok - quantity.n])
         ELSE Respond(r, "reduce", 400, "Stok tidak cukup", 0)
    /\ UNCHANGED <<isVercel, users, products, ledger, stored, nextPid, nextUid>>

\* What product.save() writes: the modified path stok of the loaded document
SaveStok(id, stok) == [products EXCEPT ![id].stok = stok]

\* POST /api/products/:id/reduce-stock, from await product.save() on; save()
\* throws DocumentNotFoundError when the document is gone
ReduceStockSave(r) ==
  /\ pc[r] = "reduce_save"
  /\ IF req[r].id \in DOMAIN products
       THEN /\ products' = SaveStok(req[r].id, loc[r].stok)
            /\ Respond(r, "reduce", 200, "Stok dikurangi", loc[r].stok)
       ELSE /\ products' = products
            /\ Respond(r, "reduce", 500, "No document found", 0)
  /\ UNCHANGED <<isVercel, users, ledger, stored, nextPid, nextUid, req>>

ProductNext(r) ==
  \/ CreateProduct(r, Names, StockInputs, Files)
  \/ CreateProductSave(r)
  \/ UpdateProduct(r, Names, StockInputs, Files)
  \/ UpdateProductSave(r)
  \/ DeleteProduct(r)
  \/ ReduceStock(r, QtyInputs)
  \/ ReduceStockSave(r)

\* ------------------------------------------------------------- transactions
\* a save that replaces the collection's content
ReplaceTransactions(trx) == <<trx>>

\* trx.save(): a new document is inserted after those already there
InsertTransaction(trx) == Append(ledger, trx)

\* POST /api/transactions: new Transaction(req.body).save(); tanggal defaults to
\* Date.now, modelled as the entry's position in time
PostTransaction(r, names) ==
  \E namaBuah \in names, jumlah \in {1} :
    /\ Len(ledger) < MaxLedger
    /\ Receive(r, [op |-> "sale", tok |-> Header(r), id |-> UnknownId])
    /\ ledger' = InsertTransaction([namaBuah |-> namaBuah, jumlah |-> jumlah,
                                    totalHarga |-> jumlah * 10, tanggal |-> Len(ledger) + 1])
    /\ Respond(r, "sale", 201, "created", jumlah)
    /\ UNCHANGED <<isVercel, users, products, stored, nextPid, nextUid>>

\* ------------------------------------------------------------- users
\* ids a client can name: those of the documents created so far, deleted or not
KnownUserIds == 1..(nextUid - 1)

PendingRegisters == Cardinality({r \in Slots : pc[r] = "register_save"})

\* the schema without unique: true
NoUniqueIndex(id, username) == TRUE

\* username: { unique: true }: the index refuses a second document with the
\* same username (id is the document being written)
UniqueIndexAllows(id, username) ==
  \A u \in DOMAIN users : u # id => users[u].username # username

\* POST /api/auth/register, up to await user.save(): bcrypt.hash rejects a
\* password that is not a string, and the catch answers 400
Register(r, passwords) ==
  \E username \in Usernames, password \in passwords, role \in {"admin", Undefined} :
    /\ nextUid + PendingRegisters <= MaxUsers
    /\ Receive(r, [op |-> "register", tok |-> Header(r), id |-> UnknownId,
                   username |-> username, password |-> password, role |-> role])
    /\ IF IsString(password)
         THEN Suspend(r, "register_save", [NoLoc EXCEPT !.hash = bcrypt_hash(password)])
         ELSE Respond(r, "register", 400, "Username sudah ada", 0)
    /\ UNCHANGED <<isVercel, users, products, ledger, stored, nextPid, nextUid>>

\* POST /api/auth/register, from await user.save() on; role defaults to 'staff'
RegisterSave(r) ==
  /\ pc[r] = "register_save"
  /\ IF UniqueIndexAllows(nextUid, req[r].username)
       THEN /\ users' = users @@ (nextUid :>
                  [username |-> req[r].username, password |-> loc[r].hash,
                   role |-> IF req[r].role = Undefined THEN "staff" ELSE req[r].role])
            /\ nextUid' = nextUid + 1
            /\ Respond(r, "register", 201, "User berhasil dibuat", 0)
       ELSE /\ UNCHANGED <<users, nextUid>>
            /\ Respond(r, "register", 400, "Username sudah ada", 0)
  /\ UNCHANGED <<isVercel, products, ledger, stored, nextPid, req>>

\* the document User.findOne({ username }) returns, if any
FindUser(username) == {u \in DOMAIN users : users[u].username = username}

\* POST /api/auth/login, up to await bcrypt.compare: `user && ...` answers 401
\* at once when findOne gave null
Login(r, passwords) ==
  \E username \in Usernames, password \in passwords :
    /\ Receive(r, [op |-> "login", tok |-> Header(r), id |-> UnknownId,
                   username |-> username, password |-> password])
    /\ IF FindUser(username) = {}
         THEN Respond(r, "login", 401, "Username/Password Salah", 0)
         ELSE \E u \in FindUser(username) :
                Suspend(r, "login_compare",
                        [NoLoc EXCEPT !.uid = u, !.hash = users[u].password,
                                      !.role = users[u].role])
    /\ UNCHANGED <<isVercel, users, products, ledger, stored, nextPid, nextUid>>

\* POST /api/auth/login, from await bcrypt.compare on: compare rejects a
\* password that is not a string and the catch answers 500 with err.message
LoginCompare(r) ==
  /\ pc[r] = "login_compare"
  /\ IF ~IsString(req[r].password)
       THEN Respond(r, "login", 500, "Illegal arguments: undefined, string", 0)
       ELSE IF bcrypt_compare(req[r].password, loc[r].hash)
         THEN /\ resp' = [resp EXCEPT ![r] =
                    [op |-> "login", status |-> 200, msg |-> req[r].username,
                     val |-> loc[r].uid, tok |-> jwt_sign(loc[r].uid, loc[r].role)]]
              /\ pc' = [pc EXCEPT ![r] = "idle"]
              /\ loc' = [loc EXCEPT ![r] = NoLoc]
         ELSE Respond(r, "login", 401, "Username/Password Salah", 0)
  /\ UNCHANGED <<isVercel, users, products, ledger, stored, nextPid, nextUid, req>>

\* User.findByIdAndUpdate(id, updateData, { new: true }) and the answer
UserUpdate(r, id, username, role, hash) ==
  IF id \in DOMAIN users /\ ~UniqueIndexAllows(id, username)
    THEN /\ users' = users
         /\ Respond(r, "user_update", 400, "E11000 duplicate key error", 0)
    ELSE IF id \in DOMAIN users
      THEN /\ users' = [users EXCEPT ![id] =
                 [username |-> username, role |-> role,
                  password |-> IF hash = <<>> THEN @.password ELSE hash]]
           /\ Respond(r, "user_update", 200, "updated", id)
      ELSE /\ users' = users
           /\ Respond(r, "user_update", 200, "null", 0)

\* PUT /api/users/:id: without a password the update follows at once; with one,
\* the handler first awaits bcrypt.hash
UpdateUser(r, passwords) ==
  \E id \in KnownUserIds, username \in Usernames, role \in {"staff"}, password \in passwords :
    /\ Receive(r, [op |-> "user_update", tok |-> Header(r), id |-> id,
                   username |-> username, password |-> password, role |-> role])
    /\ IF password = Undefined
         THEN UserUpdate(r, id, username, role, <<>>)
         ELSE /\ users' = users
              /\ Suspend(r, "user_save", [NoLoc EXCEPT !.hash = bcrypt_hash(password)])
    /\ UNCHANGED <<isVercel, products, ledger, stored, nextPid, nextUid>>

\* PUT /api/users/:id, from await bcrypt.hash on
UpdateUserSave(r) ==
  /\ pc[r] = "user_save"
  /\ UserUpdate(r, req[r].id, req[r].username, req[r].role, loc[r].hash)
  /\ UNCHANGED <<isVercel, products, ledger, stored, nextPid, nextUid, req>>

\* DELETE /api/users/:id: User.findByIdAndDelete(id)
DeleteUser(r) ==
  \E id \in KnownUserIds :
    /\ Receive(r, [op |-> "user_delete", tok |-> Header(r), id |-> id])
    /\ users' = Remove(users, id)
    /\ Respond(r, "user_delete", 200, "User dihapus", 0)
    /\ UNCHANGED <<isVercel, products, ledger, stored, nextPid, nextUid>>

UserNext(r) ==
  \/ Register(r, {"pw1", Undefined})
  \/ RegisterSave(r)
  \/ Login(r, Passwords \cup {Undefined})
  \/ LoginCompare(r)
  \/ UpdateUser(r, {"pw2", Undefined})
  \/ UpdateUserSave(r)
  \/ DeleteUser(r)

\* ------------------------------------------------------------- specifications
\* Each action takes the sets its request's fields are drawn from; the
\* specifications below are the server under different clients.

Next == \E r \in Slots : ProductNext(r) \/ PostTransaction(r, Names) \/ UserNext(r)

\* The whole server, NumSlots requests in flight.
Spec == Init /\ [][Next]_vars

\* Stock: one client that waits for each answer and sends every stock and
\* quantity, always the same name and never an image.
NextStock ==
  \/ CreateProduct(1, {"Apple"}, StockInputs, {NoFile})
  \/ CreateProductSave(1)
  \/ UpdateProduct(1, {"Apple"}, StockInputs, {NoFile})
  \/ UpdateProductSave(1)
  \/ DeleteProduct(1)
  \/ ReduceStock(1, QtyInputs)
  \/ ReduceStockSave(1)

SpecStock == Init /\ [][NextStock]_vars

\* Images: every kind of file, always the same name and stock.
UploadNext(r) ==
  \/ CreateProduct(r, {"Apple"}, {Field(1)}, Files)
  \/ CreateProductSave(r)
  \/ UpdateProduct(r, {"Apple"}, {Field(1)}, Files)
  \/ UpdateProductSave(r)
  \/ DeleteProduct(r)

\* one client that waits for each answer
NextUpload == UploadNext(1)

SpecUpload == Init /\ [][NextUpload]_vars

\* requests in flight on every slot
NextUploadConcurrent == \E r \in Slots : UploadNext(r)

SpecUploadConcurrent == Init /\ [][NextUploadConcurrent]_vars

InitRemote == Init /\ isVercel = TRUE

\* Ledger: one client that records sales and creates, renames, deletes and
\* sells products.
NextLedger ==
  \/ PostTransaction(1, Names)
  \/ CreateProduct(1, Names, {Field(1)}, {NoFile})
  \/ CreateProductSave(1)
  \/ UpdateProduct(1, Names, {Field(1)}, {NoFile})
  \/ UpdateProductSave(1)
  \/ DeleteProduct(1)
  \/ ReduceStock(1, {Field(1)})
  \/ ReduceStockSave(1)

SpecLedger == InitRemote /\ [][NextLedger]_vars

\* Accounts: register, rename and delete-user requests in flight on every slot.
NextAuth ==
  \E r \in Slots :
    \/ Register(r, {"pw1"})
    \/ RegisterSave(r)
    \/ UpdateUser(r, {Undefined})
    \/ DeleteUser(r)

SpecAuth == InitRemote /\ [][NextAuth]_vars

\* Login: register, change-password and login requests in flight on every slot.
NextLogin ==
  \E r \in Slots :
    \/ Register(r, {"pw1", Undefined})
    \/ RegisterSave(r)
    \/ UpdateUser(r, {"pw2"})
    \/ UpdateUserSave(r)
    \/ Login(r, Passwords \cup {Undefined})
    \/ LoginCompare(r)

SpecLogin == InitRemote /\ [][NextLogin]_vars

\* One product with stock MaxStock, and every client sends one
\* reduce-stock request.
InitReduce ==
  /\ isVercel = TRUE
  /\ users = <<>>
  /\ products = (1 :> [nama |-> "Apple", harga |-> 10, stok |-> MaxStock, gambar |-> ""])
  /\ ledger = <<>>
  /\ stored = {}
  /\ nextPid = 2
  /\ nextUid = 1
  /\ pc = [r \in Slots |-> "idle"]
  /\ req = [r \in Slots |-> NoReq]
  /\ loc = [r \in Slots |-> NoLoc]
  /\ resp = [r \in Slots |-> NoResp]

FirstReduceStock(r) == req[r].op = "none" /\ ReduceStock(r, QtyInputs)

NextReduce == \E r \in Slots : FirstReduceStock(r) \/ ReduceStockSave(r)

SpecReduce == InitReduce /\ [][NextReduce]_vars

\* ------------------------------------------------------------- claims
RECURSIVE SumQuantities(_)
SumQuantities(S) ==
  IF S = {} THEN 0
  ELSE LET r == CHOOSE x \in S : TRUE
       IN req[r].quantity.n + SumQuantities(S \ {r})

Succeeded == {r \in Slots : resp[r].op = "reduce" /\ resp[r].status = 200}

AllReduced ==
  \A r \in Slots : /\ req[r].op = "reduce"
                   /\ pc[r] = "idle"
                   /\ req[r].id = 1
                   /\ req[r].quantity.def
                   /\ req[r].quantity.n > 0

\* C1: once every client's reduce-stock call (positive quantity, same product,
\* initial stock S) has been answered, the stock is S minus the quantities of
\* the calls answered with success, and all calls succeeded if their
\* quantities sum to at most S.
C1_NoLostUpdate ==
  AllReduced =>
    /\ products[1].stok = MaxStock - SumQuantities(Succeeded)
    /\ (SumQuantities(Slots) <= MaxStock => Succeeded = Slots)

\* C2: every stored product has stock >= 0.
C2_StockNeverNegative ==
  \A p \in DOMAIN products : products[p].stok >= 0

\* C3: a reduce-stock call that runs alone on an existing product with stock
\* s and quantity q: if s >= q it goes on to store s - q and answers 200 with
\* that value; if s < q it answers 400 "Stok tidak cukup" and the stock stays s.
C3_ReduceAlone ==
  [][\A r \in Slots :
       /\ (ReduceStock(r, QtyInputs) /\ req'[r].id \in DOMAIN products /\ req'[r].quantity.def) =>
            LET s == products[req'[r].id].stok
                q == req'[r].quantity.n
            IN /\ s >= q => /\ pc'[r] = "reduce_save"
                            /\ loc'[r].stok = s - q
               /\ s < q => /\ resp'[r].op = "reduce"
                           /\ resp'[r].status = 400
                           /\ resp'[r].msg = "Stok tidak cukup"
                           /\ pc'[r] = "idle"
                           /\ products' = products
       /\ (ReduceStockSave(r) /\ req[r].id \in DOMAIN products) =>
            /\ products'[req[r].id].stok = products[req[r].id].stok - req[r].quantity.n
            /\ resp'[r].status = 200
            /\ resp'[r].val = products'[req[r].id].stok
    ]_vars

C3_Witness ==
  /\ resp[1].op = "reduce"
  /\ resp[1].status = 200
  /\ req[1].quantity.n > 0
  /\ req[1].id \in DOMAIN products
  /\ products[req[1].id].stok = resp[1].val

UniqueUsernames ==
  \A u, v \in DOMAIN users : users[u].username = users[v].username => u = v

\* C4: no two stored users share a username; a register request whose
\* username is taken when it reaches the store is answered 400 "Username sudah
\* ada" and leaves the users as they were; one whose username is free adds
\* exactly that user.
C4_UniqueUsername ==
  [][/\ UniqueUsernames'
     /\ \A r \in Slots : RegisterSave(r) =>
          IF \E u \in DOMAIN users : users[u].username = req[r].username
            THEN /\ users' = users
                 /\ resp'[r].status = 400
                 /\ resp'[r].msg = "Username sudah ada"
            ELSE /\ resp'[r].status = 201
                 /\ DOMAIN users' = DOMAIN users \cup {nextUid}
                 /\ \A u \in DOMAIN users : users'[u] = users[u]
    ]_vars

C4_Witness ==
  /\ resp[1].op = "register" /\ resp[1].status = 201
  /\ resp[2].op = "register" /\ resp[2].status = 400
  /\ req[1].username = req[2].username
  /\ IsString(req[2].password)
  /\ Cardinality(DOMAIN users) = 1

\* what the Access Control Gate would accept: a signature made with JWT_SECRET
Verifies(tok) == tok.sig = JWT_SECRET

Acts(r) == pc'[r] # pc[r] \/ resp'[r] # resp[r]

\* C5: a step of a request whose token does not verify leaves users, products
\* and ledger unchanged.
C5_MutationsGated ==
  [][\A r \in Slots : (Acts(r) /\ ~Verifies(req'[r].tok)) =>
        <<users, products, ledger>>' = <<users, products, ledger>>
    ]_vars

FailedLogin(r) == resp[r].op = "login" /\ pc[r] = "idle" /\ resp[r].status # 200

\* C6: two failed logins with the same password field get the same status and
\* message, whether or not their usernames exist.
C6_LoginFailuresAlike ==
  \A r1, r2 \in Slots :
    (FailedLogin(r1) /\ FailedLogin(r2) /\ req[r1].password = req[r2].password) =>
      /\ resp[r1].status = resp[r2].status
      /\ resp[r1].msg = resp[r2].msg

\* C7: the handler of a create or update request that carries an image runs
\* only with a file the storage backend holds, and every stored product with
\* a non-empty gambar refers to a file the storage backend holds.
C7_ImageStoredBeforeProduct ==
  /\ \A r \in Slots : (pc[r] \in {"create_save", "update_save"} /\ req[r].file # NoFile) =>
        loc[r].file \in stored
  /\ \A p \in DOMAIN products : products[p].gambar # "" =>
        \E f \in stored : Reference(f) = products[p].gambar

C7_Witness ==
  \E p \in DOMAIN products : products[p].gambar # ""

\* C8: every step keeps all ledger entries, in place and unchanged.
C8_LedgerAppendOnly ==
  [][/\ Len(ledger') >= Len(ledger)
     /\ \A i \in 1..Len(ledger) : ledger'[i] = ledger[i]
    ]_vars

C8_Witness ==
  /\ Len(ledger) = 2
  /\ ledger[1].namaBuah = "Apple"
  /\ nextPid > 1
  /\ DOMAIN products = {}

\* C9: update_product on an id without a product answers 404 and leaves the
\* products unchanged.
C9_UpdateMissingNotFound ==
  [][\A r \in Slots :
       (UpdateProductSave(r) /\ req[r].id \notin DOMAIN products /\ req[r].stok.def) =>
          /\ resp'[r].status = 404
          /\ products' = products
    ]_vars

\* C10: a successful reduce-stock never stores a stock above the one before it.
C10_ReduceNeverIncreases ==
  [][\A r \in Slots :
       (ReduceStockSave(r) /\ resp'[r].status = 200) =>
          products'[req[r].id].stok <= products[req[r].id].stok
    ]_vars

====
